---------------------------- MODULE Spec2Model ----------------------------
(***************************************************************************)
(* Model of the jeonse ("key-money trap") risk diagnosis of                *)
(* ddmom/my-realestate: src/app.py (the Streamlit application) and         *)
(* src/main.py (the command-line script).                                  *)
(*                                                                         *)
(* Python's int is unbounded and its float is IEEE-754 binary64.  TLC's    *)
(* integers are 32 bits wide, so the arithmetic of a float is modelled     *)
(* exactly on naturals of arbitrary size, kept as little-endian sequences  *)
(* of limbs in base 2^15.  A float is a record [s, m, e]: sign s (0 or 1), *)
(* mantissa m (an odd natural of at most 53 bits, or zero) and exponent e, *)
(* of value (-1)^s * m * 2^e.  Every binary64 value in the normal range    *)
(* has exactly one such record.  Subnormals, infinities and NaN are not    *)
(* modelled: none arises from the magnitudes the model draws.              *)
(***************************************************************************)
EXTENDS Integers, Sequences, FiniteSets, TLC

(***************************************************************************)
(* Naturals of arbitrary size.                                             *)
(***************************************************************************)
Limb == [bits |-> 15, base |-> 32768]
LimbBits == Limb.bits
LimbBase == Limb.base

RECURSIVE Pow2(_)
Pow2(k) == IF k = 0 THEN 1 ELSE 2 * Pow2(k - 1)

RECURSIVE NNorm(_)
NNorm(a) ==
    IF a = <<>> THEN <<>>
    ELSE IF a[Len(a)] = 0 THEN NNorm(SubSeq(a, 1, Len(a) - 1))
    ELSE a

RECURSIVE NFromInt(_)
NFromInt(n) ==
    IF n = 0 THEN <<>>
    ELSE <<n % LimbBase>> \o NFromInt(n \div LimbBase)

RECURSIVE NToInt(_)
NToInt(a) ==
    IF a = <<>> THEN 0
    ELSE Head(a) + LimbBase * NToInt(Tail(a))

RECURSIVE NAddC(_, _, _)
NAddC(a, b, c) ==
    IF a = <<>> /\ b = <<>> THEN (IF c = 0 THEN <<>> ELSE <<c>>)
    ELSE LET x == IF a = <<>> THEN 0 ELSE Head(a)
             y == IF b = <<>> THEN 0 ELSE Head(b)
             t == x + y + c
         IN  <<t % LimbBase>> \o
             NAddC(IF a = <<>> THEN <<>> ELSE Tail(a),
                   IF b = <<>> THEN <<>> ELSE Tail(b),
                   t \div LimbBase)

NAdd(a, b) == NAddC(a, b, 0)

RECURSIVE NSubB(_, _, _)
NSubB(a, b, c) ==
    IF a = <<>> THEN <<>>
    ELSE LET y == IF b = <<>> THEN 0 ELSE Head(b)
             t == Head(a) - y - c
         IN  <<IF t < 0 THEN t + LimbBase ELSE t>> \o
             NSubB(Tail(a), IF b = <<>> THEN <<>> ELSE Tail(b),
                   IF t < 0 THEN 1 ELSE 0)

\* a - b for a >= b
NSub(a, b) == NNorm(NSubB(a, b, 0))

RECURSIVE NCmpAt(_, _, _)
NCmpAt(a, b, i) ==
    IF i = 0 THEN 0
    ELSE IF a[i] > b[i] THEN 1
    ELSE IF a[i] < b[i] THEN -1
    ELSE NCmpAt(a, b, i - 1)

\* -1, 0 or 1 as a < b, a = b, a > b (both normalised)
NCmp(a, b) ==
    IF Len(a) > Len(b) THEN 1
    ELSE IF Len(a) < Len(b) THEN -1
    ELSE NCmpAt(a, b, Len(a))

RECURSIVE NMulSmallC(_, _, _)
NMulSmallC(a, k, c) ==
    IF a = <<>> THEN (IF c = 0 THEN <<>> ELSE <<c>>)
    ELSE LET t == Head(a) * k + c
         IN  <<t % LimbBase>> \o NMulSmallC(Tail(a), k, t \div LimbBase)

\* a * k for 0 <= k < LimbBase
NMulSmall(a, k) == IF k = 0 THEN <<>> ELSE NMulSmallC(a, k, 0)

RECURSIVE NMul(_, _)
NMul(a, b) ==
    IF a = <<>> \/ b = <<>> THEN <<>>
    ELSE NAdd(NMulSmall(a, Head(b)),
              LET r == NMul(a, Tail(b)) IN IF r = <<>> THEN <<>> ELSE <<0>> \o r)

RECURSIVE BitLenInt(_)
BitLenInt(n) == IF n = 0 THEN 0 ELSE 1 + BitLenInt(n \div 2)

NBitLen(a) ==
    IF a = <<>> THEN 0
    ELSE (Len(a) - 1) * LimbBits + BitLenInt(a[Len(a)])

\* quotient of a by d, 0 < d < LimbBase, from the high limb down
RECURSIVE NDivSmallR(_, _, _, _)
NDivSmallR(a, d, i, r) ==
    IF i = 0 THEN <<>>
    ELSE LET t == r * LimbBase + a[i]
         IN  NDivSmallR(a, d, i - 1, t % d) \o <<t \div d>>

NDivSmall(a, d) == NNorm(NDivSmallR(a, d, Len(a), 0))

\* floor(r * LimbBase^n / b) and what remains, 0 <= r < b < LimbBase: n limbs
\* still to produce, q the limbs produced (least significant first)
RECURSIVE FracLimbs(_, _, _, _)
FracLimbs(r, b, n, q) ==
    IF n = 0 THEN [q |-> q, r |-> r]
    ELSE LET t == r * LimbBase
         IN  FracLimbs(t % b, b, n - 1, <<t \div b>> \o q)

RECURSIVE ZeroLimbs(_)
ZeroLimbs(n) == IF n = 0 THEN <<>> ELSE <<0>> \o ZeroLimbs(n - 1)

\* a * 2^k
NShl(a, k) ==
    IF a = <<>> THEN <<>>
    ELSE ZeroLimbs(k \div LimbBits) \o NMulSmall(a, Pow2(k % LimbBits))

\* floor(a / 2^k)
NShr(a, k) ==
    LET w == k \div LimbBits
    IN  IF w >= Len(a) THEN <<>>
        ELSE NDivSmall(SubSeq(a, w + 1, Len(a)), Pow2(k % LimbBits))

RECURSIVE TrailingZerosInt(_)
TrailingZerosInt(n) == IF n % 2 = 1 THEN 0 ELSE 1 + TrailingZerosInt(n \div 2)

\* number of trailing zero bits of a > 0
RECURSIVE NTrailingZeros(_)
NTrailingZeros(a) ==
    IF Head(a) = 0 THEN LimbBits + NTrailingZeros(Tail(a))
    ELSE TrailingZerosInt(Head(a))

NIsOdd(a) == a # <<>> /\ Head(a) % 2 = 1

(***************************************************************************)
(* Python float: IEEE-754 binary64, round to nearest, ties to even.        *)
(***************************************************************************)
FloatPrecision == [bits |-> 53]

FZero(s) == [s |-> s, m |-> <<>>, e |-> 0]

\* the record of (-1)^s * n * 2^e, n of at most 53 bits: the mantissa made odd
FCanon(s, n, e) ==
    IF n = <<>> THEN FZero(s)
    ELSE LET z == NTrailingZeros(n)
         IN  [s |-> s, m |-> NShr(n, z), e |-> e + z]

\* the binary64 nearest to (-1)^s * (n + f) * 2^e, where 0 <= f < 1 and
\* sticky says f > 0 (then n has more than 53 bits)
FRound(s, n, e, sticky) ==
    LET len == NBitLen(n)
    IN  IF len <= FloatPrecision.bits THEN FCanon(s, n, e)
        ELSE LET k    == len - FloatPrecision.bits
                 q    == NShr(n, k)
                 r    == NSub(n, NShl(q, k))
                 half == NShl(<<1>>, k - 1)
                 c    == NCmp(r, half)
                 up   == c > 0 \/ (c = 0 /\ (sticky \/ NIsOdd(q)))
             IN  FCanon(s, IF up THEN NAdd(q, <<1>>) ELSE q, e + k)

Abs(n) == IF n < 0 THEN -n ELSE n

\* float(n) of a Python int
FromInt(n) == FRound(IF n < 0 THEN 1 ELSE 0, NFromInt(Abs(n)), 0, FALSE)

\* a / b of two Python ints (true division, correctly rounded), for
\* 0 < |b| < LimbBase: the quotient to 6 limbs below the binary point
IntTrueDiv(a, b) ==
    LET s == IF (a < 0) # (b < 0) THEN 1 ELSE 0
        f == FracLimbs(Abs(a) % Abs(b), Abs(b), 6, <<>>)
        n == NNorm(f.q \o NFromInt(Abs(a) \div Abs(b)))
    IN  FRound(s, n, -(6 * LimbBits), f.r # 0)

\* a decimal literal num/den read as a float (correctly rounded)
FLiteral(num, den) == IntTrueDiv(num, den)

\* x * y
FMul(x, y) ==
    LET s == IF x.s # y.s THEN 1 ELSE 0
    IN  FRound(s, NMul(x.m, y.m), x.e + y.e, FALSE)

FNeg(x) == [x EXCEPT !.s = 1 - x.s]

\* x + y
FAdd(x, y) ==
    IF x.m = <<>> THEN y
    ELSE IF y.m = <<>> THEN x
    ELSE LET emin == IF x.e < y.e THEN x.e ELSE y.e
             a    == NShl(x.m, x.e - emin)
             b    == NShl(y.m, y.e - emin)
             c    == NCmp(a, b)
         IN  IF x.s = y.s THEN FRound(x.s, NAdd(a, b), emin, FALSE)
             ELSE IF c = 0 THEN FZero(0)
             ELSE IF c > 0 THEN FRound(x.s, NSub(a, b), emin, FALSE)
             ELSE FRound(y.s, NSub(b, a), emin, FALSE)

\* x - y
FSub(x, y) == FAdd(x, FNeg(y))

\* x < y
FLess(x, y) ==
    LET d == FSub(x, y) IN d.m # <<>> /\ d.s = 1

\* x <= y
FLessEq(x, y) == ~FLess(y, x)

\* int(x): truncation toward zero
FTrunc(x) ==
    LET n == IF x.e >= 0 THEN NToInt(NShl(x.m, x.e))
             ELSE NToInt(NShr(x.m, -x.e))
    IN  IF x.s = 1 THEN -n ELSE n

(***************************************************************************)
(* Bounds of the model.                                                    *)
(***************************************************************************)
MaxPrice    == 60   \* calculators: official_price ranges over -MaxNegPrice .. MaxPrice
MaxNegPrice == 3
MaxDeposit  == 70   \* calculators: jeonse_deposit ranges over 0 .. MaxDeposit
MaxLoan     == 6    \* calculators: loan_amount ranges over 0 .. MaxLoan
MaxDetailLen == 3   \* diagnosis: the detail address has at most this many characters
MaxItems    == 2    \* diagnosis: the search provider returns at most this many items
MaxRecords  == 2    \* diagnosis: the price registry returns at most this many records
MaxEok      == 2    \* formatter: amounts of at most MaxEok hundred millions (and a rest)
MaxBelowZero == 5   \* formatter: amounts down to -MaxBelowZero

(***************************************************************************)
(* The judgments.  The source's strings are Korean text led by an emoji;   *)
(* the model names each by its tier.  app.py and main.py word the caution  *)
(* judgment differently and both mean the same tier.                       *)
(***************************************************************************)
SAFE    == "SAFE"       \* the judgment "safe (under 70%)"
CAUTION == "CAUTION"    \* the judgment "caution (80% or less)"
DANGER  == "DANGER"     \* the judgment "danger (over 80%)"

\* the market ratios: 1.4 is main.py's MARKET_RATIO and the default of
\* app.py's secrets; main.py's comment gives 130%..150% as the range
MarketRatios == {FLiteral(14, 10), FLiteral(15, 10)}

(***************************************************************************)
(* calculate_risk                                                          *)
(***************************************************************************)
\* a variant of Judge that takes exactly 70 for safe
JudgeSafeAt70(risk_percent) ==
    IF FLessEq(risk_percent, FromInt(70)) THEN SAFE
    ELSE IF FLessEq(risk_percent, FromInt(80)) THEN CAUTION
    ELSE DANGER

Judge(risk_percent) ==
    IF FLess(risk_percent, FromInt(70)) THEN SAFE
    ELSE IF FLessEq(risk_percent, FromInt(80)) THEN CAUTION
    ELSE DANGER

\* app.py: the division is guarded by estimated_market_price > 0
app_calculate_risk(official_price, market_price_ratio, jeonse_deposit, loan_amount) ==
    LET estimated_market_price == FTrunc(FMul(FromInt(official_price), market_price_ratio))
        total_burden == jeonse_deposit + loan_amount
        divides      == estimated_market_price > 0
        risk_percent == IF divides
                        THEN FMul(IntTrueDiv(total_burden, estimated_market_price), FromInt(100))
                        ELSE FromInt(100)
    IN  [risk_percent |-> risk_percent,
         judgment |-> Judge(risk_percent),
         estimated_market_price |-> estimated_market_price,
         divided |-> divides]

\* main.py: the division is guarded by estimated_market_price == 0 only
main_calculate_risk(official_price, market_price_ratio, jeonse_deposit, loan_amount) ==
    LET estimated_market_price == FTrunc(FMul(FromInt(official_price), market_price_ratio))
        total_burden == jeonse_deposit + loan_amount
        divides      == estimated_market_price # 0
        risk_percent == IF divides
                        THEN FMul(IntTrueDiv(total_burden, estimated_market_price), FromInt(100))
                        ELSE FromInt(100)
    IN  [risk_percent |-> risk_percent,
         judgment |-> Judge(risk_percent),
         estimated_market_price |-> estimated_market_price,
         divided |-> divides]

calculate_risk(program, official_price, market_price_ratio, jeonse_deposit, loan_amount) ==
    IF program = "app"
    THEN app_calculate_risk(official_price, market_price_ratio, jeonse_deposit, loan_amount)
    ELSE main_calculate_risk(official_price, market_price_ratio, jeonse_deposit, loan_amount)

(***************************************************************************)
(* calculate_safe_jeonse (app.py only)                                     *)
(***************************************************************************)
MAX_SAFE_RATIO    == FLiteral(70, 100)
MAX_WARNING_RATIO == FLiteral(80, 100)

Max(a, b) == IF a >= b THEN a ELSE b

calculate_safe_jeonse(estimated_market_price, loan_amount) ==
    LET max_safe_jeonse ==
            FTrunc(FSub(FMul(FromInt(estimated_market_price), MAX_SAFE_RATIO),
                        FromInt(loan_amount)))
        max_warning_jeonse ==
            FTrunc(FSub(FMul(FromInt(estimated_market_price), MAX_WARNING_RATIO),
                        FromInt(loan_amount)))
    IN  [max_safe_jeonse |-> Max(0, max_safe_jeonse),
         max_warning_jeonse |-> Max(0, max_warning_jeonse)]

(***************************************************************************)
(* Text.  A Python str is a sequence of one-character strings.             *)
(***************************************************************************)
IsSpace(c) == c = " "

\* len(s.strip().split()): the number of whitespace-separated tokens
TokenCount(s) ==
    Cardinality({i \in 1..Len(s) : ~IsSpace(s[i]) /\ (i = 1 \/ IsSpace(s[i - 1]))})

RECURSIVE LStrip(_)
LStrip(s) == IF s # <<>> /\ IsSpace(Head(s)) THEN LStrip(Tail(s)) ELSE s

RECURSIVE RStrip(_)
RStrip(s) ==
    IF s # <<>> /\ IsSpace(s[Len(s)]) THEN RStrip(SubSeq(s, 1, Len(s) - 1)) ELSE s

\* s.strip()
Strip(s) == RStrip(LStrip(s))

\* re.sub(r"\s+", " ", s): every run of whitespace becomes one space
RECURSIVE CollapseSpaces(_)
CollapseSpaces(s) ==
    IF Len(s) < 2 THEN s
    ELSE IF IsSpace(s[1]) /\ IsSpace(s[2]) THEN CollapseSpaces(Tail(s))
    ELSE <<s[1]>> \o CollapseSpaces(Tail(s))

DigitChars == <<"0", "1", "2", "3", "4", "5", "6", "7", "8", "9">>

IsDigit(c) == \E d \in 1..Len(DigitChars) : DigitChars[d] = c

DigitValue(c) == (CHOOSE d \in 1..Len(DigitChars) : DigitChars[d] = c) - 1

\* whether int(t) and float(t) accept the text t: a non-empty run of digits
\* (the only numerals the model's providers send)
IsNumeral(t) == t # <<>> /\ \A i \in 1..Len(t) : IsDigit(t[i])

\* int(t) of a numeral, acc the value of the digits read so far
RECURSIVE ParseIntR(_, _)
ParseIntR(t, acc) ==
    IF t = <<>> THEN acc ELSE ParseIntR(Tail(t), 10 * acc + DigitValue(Head(t)))

ParseInt(t) == ParseIntR(t, 0)

(***************************************************************************)
(* The outcome of a block of code: a value returned or an exception        *)
(* raised.                                                                 *)
(***************************************************************************)
None == "None"

Returned(v) == [raised |-> FALSE, value |-> v]
Raised      == [raised |-> TRUE, value |-> None]

(***************************************************************************)
(* get_pnu_code.  A reply of the search provider:                          *)
(*   kind    "network_error": requests.get raises (no connection, timeout) *)
(*           "bad_body": response.json() raises                            *)
(*           "json": a JSON object                                         *)
(*   has_status, status: data["response"]["status"], when there            *)
(*   has_items, items: data["response"]["result"]["items"], when there;    *)
(*           an item is [has_id, id]                                       *)
(***************************************************************************)
\* app.py 122-144, the body of the try
app_pnu_lookup(reply) ==
    IF reply.kind = "network_error" THEN Raised
    ELSE IF reply.kind = "bad_body" THEN Raised
    ELSE IF reply.has_status /\ reply.status = "OK"
    THEN IF ~reply.has_items THEN Raised
         ELSE IF reply.items = <<>> THEN Returned(None)
         ELSE IF ~reply.items[1].has_id THEN Raised
         ELSE Returned(reply.items[1].id)
    ELSE Returned(None)

\* app.py 115-146
app_get_pnu_code(reply) ==
    LET r == app_pnu_lookup(reply)
    IN  IF r.raised THEN Returned(None) ELSE r

\* main.py 23-44, the body of the try: data['response']['status'] raises
\* KeyError when the key is not there
main_pnu_lookup(reply) ==
    IF reply.kind = "network_error" THEN Raised
    ELSE IF reply.kind = "bad_body" THEN Raised
    ELSE IF ~reply.has_status THEN Raised
    ELSE IF reply.status = "OK"
    THEN IF ~reply.has_items THEN Raised
         ELSE IF reply.items = <<>> THEN Returned(None)
         ELSE IF ~reply.items[1].has_id THEN Raised
         ELSE Returned(reply.items[1].id)
    ELSE Returned(None)

\* main.py 21-47
main_get_pnu_code(reply) ==
    LET r == main_pnu_lookup(reply)
    IN  IF r.raised THEN Returned(None) ELSE r

get_pnu_code(program, reply) ==
    IF program = "app" THEN app_get_pnu_code(reply) ELSE main_get_pnu_code(reply)

\* "if not pnu_code": None and the empty string are false
Falsy(pnu) == pnu = None \/ pnu = ""

(***************************************************************************)
(* get_latest_official_price.  A reply of the price registry:              *)
(*   kind    "network_error", "bad_body" or "json", as above               *)
(*   status_code: the HTTP status                                          *)
(*   has_field, field: data["apartHousingPrices"]["field"], when there;    *)
(*           a record is [pblntfPc, prvuseAr, aphusNm], pblntfPc and       *)
(*           prvuseAr each [present, text]                                 *)
(***************************************************************************)
HTTP_OK == 200

\* int(item.get("pblntfPc", 0)) raises unless the field is absent or a numeral
PriceReadable(item) == ~item.pblntfPc.present \/ IsNumeral(item.pblntfPc.text)

\* int(item.get("pblntfPc", 0))
PriceOf(item) == IF item.pblntfPc.present THEN ParseInt(item.pblntfPc.text) ELSE 0

\* max(...) over the records from i on, m the greatest so far
RECURSIVE MaxPriceFrom(_, _, _)
MaxPriceFrom(items, i, m) ==
    IF i > Len(items) THEN m
    ELSE MaxPriceFrom(items, i + 1, Max(m, PriceOf(items[i])))

\* a variant of latest_price that takes the first record's price
latest_price_of_first(items) == PriceOf(items[1])

latest_price(items) == MaxPriceFrom(items, 2, PriceOf(items[1]))

\* float(...) of the first record's area raises unless absent or a numeral
AreaReadable(item) == ~item.prvuseAr.present \/ IsNumeral(item.prvuseAr.text)

\* float(items[0].get("prvuseAr", "0"))
AreaOf(item) ==
    IF item.prvuseAr.present THEN FromInt(ParseInt(item.prvuseAr.text)) ELSE FZero(0)

Quote(name, price, area) == [name |-> name, price |-> price, area |-> area]

\* the statements both programs share (app.py 166-179, main.py 60-78):
\* no_data is what the function returns when there is nothing to read
price_lookup(reply, no_data) ==
    IF reply.kind = "network_error" THEN Raised
    ELSE IF reply.status_code = HTTP_OK
    THEN IF reply.kind = "bad_body" THEN Raised
         ELSE IF reply.has_field /\ reply.field # <<>>
         THEN IF \E i \in 1..Len(reply.field) : ~PriceReadable(reply.field[i])
              THEN Raised
              ELSE IF ~AreaReadable(reply.field[1]) THEN Raised
              ELSE Returned(Quote(reply.field[1].aphusNm,
                                  latest_price(reply.field),
                                  AreaOf(reply.field[1])))
         ELSE Returned(no_data)
    ELSE Returned(no_data)

\* app.py 149-181: everything is inside try, except Exception returns the
\* "communication error" triple
app_get_latest_official_price(reply) ==
    LET r == price_lookup(reply, Quote("NO_DATA", 0, FZero(0)))
    IN  IF r.raised THEN Returned(Quote("COMM_ERROR", 0, FZero(0))) ELSE r

\* main.py 49-78: there is no try
main_get_latest_official_price(reply) ==
    price_lookup(reply, Quote(None, 0, FZero(0)))

get_latest_official_price(program, reply) ==
    IF program = "app" THEN app_get_latest_official_price(reply)
    ELSE main_get_latest_official_price(reply)

(***************************************************************************)
(* format_korean_money (app.py 99-112).  The three unit characters are     *)
(* named: EOK is the character for a hundred million, MAN the character    *)
(* for ten thousand, WON the character for the currency.                   *)
(***************************************************************************)
EOK == "EOK"
MAN == "MAN"
WON == "WON"

EOK_UNIT == 100000000
MAN_UNIT == 10000

\* str(n), n >= 0
RECURSIVE Digits(_)
Digits(n) ==
    IF n < 10 THEN <<DigitChars[n + 1]>>
    ELSE Digits(n \div 10) \o <<DigitChars[(n % 10) + 1]>>

\* the "," of the format ":,": a comma before every group of three digits
RECURSIVE GroupThousands(_)
GroupThousands(d) ==
    IF Len(d) <= 3 THEN d
    ELSE GroupThousands(SubSeq(d, 1, Len(d) - 3)) \o <<",">>
         \o SubSeq(d, Len(d) - 2, Len(d))

\* a variant of format_korean_money that does not strip the parts
format_korean_money_unstripped(amount) ==
    IF amount <= 0 THEN <<"0", " ", WON>>
    ELSE LET eok       == amount \div EOK_UNIT
             remainder == amount % EOK_UNIT
             man       == remainder \div MAN_UNIT
             result1   == IF eok > 0 THEN Digits(eok) \o <<EOK, " ">> ELSE <<>>
             result2   == IF man > 0
                          THEN result1 \o GroupThousands(Digits(man)) \o <<MAN>>
                          ELSE result1
         IN  result2 \o <<" ", WON>>

\* a variant of format_korean_money that strips after the unit is appended
format_korean_money_strip_last(amount) ==
    IF amount <= 0 THEN <<"0", " ", WON>>
    ELSE LET eok       == amount \div EOK_UNIT
             remainder == amount % EOK_UNIT
             man       == remainder \div MAN_UNIT
             result1   == IF eok > 0 THEN Digits(eok) \o <<EOK, " ">> ELSE <<>>
             result2   == IF man > 0
                          THEN result1 \o GroupThousands(Digits(man)) \o <<MAN>>
                          ELSE result1
         IN  Strip(result2 \o <<" ", WON>>)

format_korean_money(amount) ==
    IF amount <= 0 THEN <<"0", " ", WON>>
    ELSE LET eok       == amount \div EOK_UNIT
             remainder == amount % EOK_UNIT
             man       == remainder \div MAN_UNIT
             result1   == IF eok > 0 THEN Digits(eok) \o <<EOK, " ">> ELSE <<>>
             result2   == IF man > 0
                          THEN result1 \o GroupThousands(Digits(man)) \o <<MAN>>
                          ELSE result1
         IN  Strip(result2) \o <<" ", WON>>

(***************************************************************************)
(* State.                                                                  *)
(***************************************************************************)
VARIABLES
    prog,            \* "app" (src/app.py) or "main" (src/main.py)
    pc,              \* the position reached in main() (or in a calculator run)
    MARKET_RATIO,    \* the configured market ratio, a float
    detail_address,  \* the detail address entered
    JEONSE_DEPOSIT,  \* the deposit entered
    LOAN_AMOUNT,     \* the prior loan entered
    search_reply,    \* what the search provider answered
    price_reply,     \* what the price registry answered
    pnu_code,        \* what get_pnu_code returned
    name,            \* what get_latest_official_price returned: name,
    official_price,  \*   price
    area,            \*   and area
    risk,            \* what calculate_risk returned
    safe,            \* what calculate_safe_jeonse returned
    trace,           \* the steps main() has taken, in order
    queries,         \* the arguments of the get_pnu_code calls made
    lookups,         \* the arguments of the get_latest_official_price calls made
    shown,           \* what main() has displayed
    amount,          \* the argument of format_korean_money
    money            \* what format_korean_money returned

vars == <<prog, pc, MARKET_RATIO, detail_address, JEONSE_DEPOSIT, LOAN_AMOUNT,
          search_reply, price_reply, pnu_code, name, official_price, area,
          risk, safe, trace, queries, lookups, shown, amount, money>>

NoRisk == [risk_percent |-> FZero(0), judgment |-> "", estimated_market_price |-> 0,
           divided |-> FALSE]
NoSafe == [max_safe_jeonse |-> 0, max_warning_jeonse |-> 0]

NoSearchReply == [kind |-> "none", has_status |-> FALSE, status |-> "",
                  has_items |-> FALSE, items |-> <<>>]
NoPriceReply  == [kind |-> "none", status_code |-> 0, has_field |-> FALSE, field |-> <<>>]

(***************************************************************************)
(* SpecCalc: the calculators applied to drawn arguments, in the order      *)
(* main() applies them (app.py 340-350, main.py 137-142).                  *)
(***************************************************************************)
\* the diagnosis has not begun
NoDiagnosis ==
    /\ detail_address = <<>>
    /\ search_reply = NoSearchReply
    /\ price_reply = NoPriceReply
    /\ pnu_code = None
    /\ name = None
    /\ area = FZero(0)
    /\ trace = <<>>
    /\ queries = <<>>
    /\ lookups = <<>>
    /\ shown = <<>>

\* nothing is being formatted
NoMoney ==
    /\ amount = 0
    /\ money = <<>>

CalcInit ==
    /\ prog \in {"app", "main"}
    /\ pc = "calc"
    /\ MARKET_RATIO \in MarketRatios
    /\ JEONSE_DEPOSIT \in 0..MaxDeposit
    /\ LOAN_AMOUNT \in 0..MaxLoan
    /\ official_price \in (-MaxNegPrice)..MaxPrice
    /\ risk = NoRisk
    /\ safe = NoSafe
    /\ NoDiagnosis
    /\ NoMoney

diagnosis == <<detail_address, search_reply, price_reply, pnu_code, name, area,
               trace, queries, lookups, shown, amount, money>>

CalcRisk ==
    /\ pc = "calc"
    /\ risk' = calculate_risk(prog, official_price, MARKET_RATIO, JEONSE_DEPOSIT, LOAN_AMOUNT)
    /\ pc' = "risk"
    /\ UNCHANGED <<prog, MARKET_RATIO, JEONSE_DEPOSIT, LOAN_AMOUNT, official_price, safe>>
    /\ UNCHANGED diagnosis

CalcSafe ==
    /\ pc = "risk"
    /\ prog = "app"
    /\ safe' = calculate_safe_jeonse(risk.estimated_market_price, LOAN_AMOUNT)
    /\ pc' = "safe"
    /\ UNCHANGED <<prog, MARKET_RATIO, JEONSE_DEPOSIT, LOAN_AMOUNT, official_price, risk>>
    /\ UNCHANGED diagnosis

CalcNext == CalcRisk \/ CalcSafe

SpecCalc == CalcInit /\ [][CalcNext]_vars

(***************************************************************************)
(* Spec: one diagnosis, main() of app.py (from the button click, line 305) *)
(* or of main.py.  A step is a statement of main(); each remote call draws *)
(* the provider's reply.                                                   *)
(***************************************************************************)
\* str values of at most n characters over the characters of cs
RECURSIVE Texts(_, _)
Texts(cs, n) ==
    IF n = 0 THEN {<<>>}
    ELSE LET shorter == Texts(cs, n - 1)
         IN  shorter \cup {Append(t, c) : t \in shorter, c \in cs}

\* sequences of at most n elements of S
RECURSIVE SeqsUpTo(_, _)
SeqsUpTo(S, n) ==
    IF n = 0 THEN {<<>>}
    ELSE LET shorter == SeqsUpTo(S, n - 1)
         IN  shorter \cup {Append(q, e) : q \in shorter, e \in S}

\* the detail addresses entered: "d" stands for any character that is not
\* whitespace
DetailAddresses == Texts({" ", "d"}, MaxDetailLen)

\* main.py 107: TARGET_ADDRESS ends in a detail address of two tokens
MAIN_DETAIL_ADDRESS == <<"d", " ", "d">>

\* main.py 108-109, and the defaults of app.py's number inputs (290, 297)
DEFAULT_JEONSE_DEPOSIT == 1800000000
DEFAULT_LOAN_AMOUNT    == 300000000

\* f"{selected_city} {selected_district} {detail_address}" (app.py 281)
TARGET_ADDRESS(detail) == <<"C", " ", "D", " ">> \o detail

\* app.py 120: the address get_pnu_code sends; main.py sends it as it is
Query(program, address) ==
    IF program = "app" THEN Strip(CollapseSpaces(address)) ELSE address

SearchItems == [has_id : {TRUE}, id : {"P1", "P2", ""}]
                   \cup {[has_id |-> FALSE, id |-> ""]}

SearchReplies ==
    {[kind |-> k, has_status |-> FALSE, status |-> "", has_items |-> FALSE, items |-> <<>>] :
        k \in {"network_error", "bad_body", "json"}}
    \cup [kind : {"json"}, has_status : {TRUE}, status : {"OK", "NOT_FOUND"},
          has_items : {FALSE}, items : {<<>>}]
    \cup [kind : {"json"}, has_status : {TRUE}, status : {"OK", "NOT_FOUND"},
          has_items : {TRUE}, items : SeqsUpTo(SearchItems, MaxItems)]

Absent == [present |-> FALSE, text |-> <<>>]
Present(t) == [present |-> TRUE, text |-> t]

PriceFields == {Absent, Present(<<"1", "0", "0">>), Present(<<"5", "0", "0">>),
                Present(<<"x">>)}
\* the dwellings of the registry: a name and an area
Dwellings == {[aphusNm |-> "A", prvuseAr |-> Present(<<"5", "0">>)],
              [aphusNm |-> "B", prvuseAr |-> Present(<<"8", "0">>)]}

PriceRecords ==
    {[pblntfPc |-> p, prvuseAr |-> d.prvuseAr, aphusNm |-> d.aphusNm] :
        p \in PriceFields, d \in Dwellings}

PriceReplies ==
    {[kind |-> "network_error", status_code |-> 0, has_field |-> FALSE, field |-> <<>>]}
    \cup [kind : {"bad_body", "json"}, status_code : {HTTP_OK, 500},
          has_field : {FALSE}, field : {<<>>}]
    \cup [kind : {"json"}, status_code : {HTTP_OK},
          has_field : {TRUE}, field : SeqsUpTo(PriceRecords, MaxRecords)]
    \cup [kind : {"json"}, status_code : {500},
          has_field : {TRUE}, field : SeqsUpTo(PriceRecords, 1)]

Init ==
    /\ prog \in {"app", "main"}
    /\ pc = "start"
    /\ MARKET_RATIO = FLiteral(14, 10)
    /\ detail_address \in IF prog = "app" THEN DetailAddresses ELSE {MAIN_DETAIL_ADDRESS}
    /\ JEONSE_DEPOSIT = DEFAULT_JEONSE_DEPOSIT
    /\ LOAN_AMOUNT = DEFAULT_LOAN_AMOUNT
    /\ search_reply = NoSearchReply
    /\ price_reply = NoPriceReply
    /\ pnu_code = None
    /\ name = None
    /\ official_price = 0
    /\ area = FZero(0)
    /\ risk = NoRisk
    /\ safe = NoSafe
    /\ trace = <<>>
    /\ queries = <<>>
    /\ lookups = <<>>
    /\ shown = <<>>
    /\ NoMoney

inputs == <<prog, MARKET_RATIO, detail_address, JEONSE_DEPOSIT, LOAN_AMOUNT, amount, money>>

\* app.py 308-312: the format check of the detail address
Validate ==
    /\ prog = "app"
    /\ pc = "start"
    /\ trace' = Append(trace, "validate")
    /\ IF TokenCount(Strip(detail_address)) < 2
       THEN /\ shown' = Append(shown, "ERROR_ADDRESS_FORMAT")
            /\ pc' = "halted"
       ELSE /\ shown' = shown
            /\ pc' = "validated"
    /\ UNCHANGED <<inputs, search_reply, price_reply, pnu_code, name, official_price,
                   area, risk, safe, queries, lookups>>

\* a variant of ResolveParcel that goes on whatever get_pnu_code returned
ResolveParcelUnchecked ==
    /\ \/ prog = "app" /\ pc = "validated"
       \/ prog = "main" /\ pc = "start"
    /\ \E reply \in SearchReplies :
          /\ search_reply' = reply
          /\ pnu_code' = get_pnu_code(prog, reply).value
    /\ trace' = Append(trace, "get_pnu_code")
    /\ queries' = Append(queries, Query(prog, TARGET_ADDRESS(detail_address)))
    /\ shown' = shown
    /\ pc' = "resolved"
    /\ UNCHANGED <<inputs, price_reply, name, official_price, area, risk, safe, lookups>>

\* app.py 317-326, main.py 121-124: get_pnu_code and the check of its result
ResolveParcel ==
    /\ \/ prog = "app" /\ pc = "validated"
       \/ prog = "main" /\ pc = "start"
    /\ \E reply \in SearchReplies :
          /\ search_reply' = reply
          /\ pnu_code' = get_pnu_code(prog, reply).value
    /\ trace' = Append(trace, "get_pnu_code")
    /\ queries' = Append(queries, Query(prog, TARGET_ADDRESS(detail_address)))
    /\ IF Falsy(pnu_code')
       THEN /\ shown' = Append(shown, "ERROR_PNU")
            /\ pc' = "halted"
       ELSE /\ shown' = shown
            /\ pc' = "resolved"
    /\ UNCHANGED <<inputs, price_reply, name, official_price, area, risk, safe, lookups>>

\* app.py 329-337, main.py 127-131: get_latest_official_price and the check
\* of the price; an exception that leaves the function ends main()
FetchPrice ==
    /\ pc = "resolved"
    /\ trace' = Append(trace, "get_latest_official_price")
    /\ lookups' = Append(lookups, pnu_code)
    /\ \E reply \in PriceReplies :
          LET r == get_latest_official_price(prog, reply)
          IN  /\ price_reply' = reply
              /\ IF r.raised
                 THEN /\ UNCHANGED <<name, official_price, area, shown>>
                      /\ pc' = "crashed"
                 ELSE /\ name' = r.value.name
                      /\ official_price' = r.value.price
                      /\ area' = r.value.area
                      /\ IF r.value.price <= 0
                         THEN /\ shown' = Append(shown, "NO_PRICE")
                              /\ pc' = "halted"
                         ELSE /\ shown' = shown
                              /\ pc' = "priced"
    /\ UNCHANGED <<inputs, search_reply, pnu_code, risk, safe, queries>>

\* app.py 340-345, main.py 137-142
AssessRisk ==
    /\ pc = "priced"
    /\ risk' = calculate_risk(prog, official_price, MARKET_RATIO, JEONSE_DEPOSIT, LOAN_AMOUNT)
    /\ trace' = Append(trace, "calculate_risk")
    /\ pc' = "assessed"
    /\ UNCHANGED <<inputs, search_reply, price_reply, pnu_code, name, official_price,
                   area, safe, queries, lookups, shown>>

\* app.py 347-350
SafeCeilings ==
    /\ prog = "app"
    /\ pc = "assessed"
    /\ safe' = calculate_safe_jeonse(risk.estimated_market_price, LOAN_AMOUNT)
    /\ trace' = Append(trace, "calculate_safe_jeonse")
    /\ pc' = "ceilings"
    /\ UNCHANGED <<inputs, search_reply, price_reply, pnu_code, name, official_price,
                   area, risk, queries, lookups, shown>>

\* app.py 353-408, main.py 145-151: the result is displayed
Render ==
    /\ \/ prog = "app" /\ pc = "ceilings"
       \/ prog = "main" /\ pc = "assessed"
    /\ shown' = Append(shown, "RESULT")
    /\ trace' = Append(trace, "render")
    /\ pc' = "rendered"
    /\ UNCHANGED <<inputs, search_reply, price_reply, pnu_code, name, official_price,
                   area, risk, safe, queries, lookups>>

Next ==
    \/ Validate
    \/ ResolveParcel
    \/ FetchPrice
    \/ AssessRisk
    \/ SafeCeilings
    \/ Render

Spec == Init /\ [][Next]_vars

(***************************************************************************)
(* SpecMoney: format_korean_money applied to a drawn amount.               *)
(***************************************************************************)
\* every amount from -MaxBelowZero to MAN_UNIT - 1, and every number of EOK
\* (up to MaxEok) and of MAN with nothing or everything below MAN_UNIT
Amounts ==
    ((-MaxBelowZero)..(MAN_UNIT - 1))
    \cup {e * EOK_UNIT + m * MAN_UNIT + w :
            e \in 0..MaxEok, m \in 0..((EOK_UNIT \div MAN_UNIT) - 1),
            w \in {0, MAN_UNIT - 1}}

MoneyInit ==
    /\ prog = "app"
    /\ pc = "money"
    /\ amount \in Amounts
    /\ money = <<>>
    /\ MARKET_RATIO = FLiteral(14, 10)
    /\ JEONSE_DEPOSIT = 0
    /\ LOAN_AMOUNT = 0
    /\ official_price = 0
    /\ risk = NoRisk
    /\ safe = NoSafe
    /\ NoDiagnosis

FormatMoney ==
    /\ pc = "money"
    /\ money' = format_korean_money(amount)
    /\ pc' = "formatted"
    /\ UNCHANGED <<prog, MARKET_RATIO, detail_address, JEONSE_DEPOSIT, LOAN_AMOUNT,
                   search_reply, price_reply, pnu_code, name, official_price, area,
                   risk, safe, trace, queries, lookups, shown, amount>>

MoneyNext == FormatMoney

SpecMoney == MoneyInit /\ [][MoneyNext]_vars

(***************************************************************************)
(* The claims.                                                             *)
(***************************************************************************)
total_burden == JEONSE_DEPOSIT + LOAN_AMOUNT

RiskDone == pc \in {"risk", "safe"}

\* C1: for every total burden >= 0 and every estimated market price > 0,
\* calculate_risk (app.py and main.py) judges SAFE exactly when
\* total_burden / estimated_market_price * 100 < 70, CAUTION exactly when it
\* is between 70 and 80 (both included) and DANGER exactly when it is over 80.
\* The ratio is compared exactly: 100 * burden against 70 (80) * price.
C1_Thresholds ==
    (RiskDone /\ risk.estimated_market_price > 0) =>
        LET emp == risk.estimated_market_price
        IN  /\ (risk.judgment = SAFE) <=> (100 * total_burden < 70 * emp)
            /\ (risk.judgment = CAUTION) <=>
                   (70 * emp <= 100 * total_burden /\ 100 * total_burden <= 80 * emp)
            /\ (risk.judgment = DANGER) <=> (100 * total_burden > 80 * emp)

\* a ratio of exactly 70 has been judged CAUTION by app.py
C1_Witness ==
    /\ RiskDone
    /\ prog = "app"
    /\ risk.estimated_market_price > 0
    /\ 100 * total_burden = 70 * risk.estimated_market_price
    /\ risk.judgment = CAUTION

\* C2: whenever the estimated market price is <= 0, calculate_risk in both
\* app.py and main.py divides nothing and returns risk_percent 100.0 and
\* DANGER.
C2_NonPositivePriceIsDanger ==
    (RiskDone /\ risk.estimated_market_price <= 0) =>
        /\ ~risk.divided
        /\ risk.risk_percent = FromInt(100)
        /\ risk.judgment = DANGER

\* what the search provider answered is a failure: no connection, a body
\* that is not JSON, a status other than OK, no item list, an empty one, an
\* item with no id
SearchFailed(reply) ==
    \/ reply.kind \in {"network_error", "bad_body"}
    \/ ~reply.has_status
    \/ reply.status # "OK"
    \/ ~reply.has_items
    \/ reply.items = <<>>
    \/ ~reply.items[1].has_id

\* what the price registry answered is a failure: no connection, a status
\* other than success, a body that is not JSON, no price list, an empty one,
\* a field that does not convert
PriceFailed(reply) ==
    \/ reply.kind \in {"network_error", "bad_body"}
    \/ reply.status_code # HTTP_OK
    \/ ~reply.has_field
    \/ reply.field = <<>>
    \/ \E i \in 1..Len(reply.field) : ~PriceReadable(reply.field[i])
    \/ ~AreaReadable(reply.field[1])

\* C3: every failure of either remote call is caught inside get_pnu_code or
\* get_latest_official_price and becomes the sentinel (None; price 0 and
\* area 0); in neither program does an exception leave these functions.
C3_FailuresCaught ==
    /\ pc # "crashed"
    /\ (search_reply.kind # "none" /\ SearchFailed(search_reply)) => pnu_code = None
    /\ (price_reply.kind # "none" /\ PriceFailed(price_reply)) =>
           (official_price = 0 /\ area = FZero(0))

\* the price registry answered with success and a non-empty list of records
\* whose price fields are each absent or a number
RecordsReturned ==
    /\ price_reply.kind = "json"
    /\ price_reply.status_code = HTTP_OK
    /\ price_reply.has_field
    /\ price_reply.field # <<>>
    /\ \A i \in 1..Len(price_reply.field) : PriceReadable(price_reply.field[i])

\* the assessed price of record i: 0 when the field is absent
AssessedPrice(i) ==
    LET f == price_reply.field[i].pblntfPc
    IN  IF f.present THEN ParseInt(f.text) ELSE 0

\* C4: for every non-empty list of records returned with success,
\* get_latest_official_price returns the greatest assessed price of ALL the
\* records (an absent price counting 0) and the name and area of the FIRST
\* record.
C4_MaxPriceFirstRecord ==
    RecordsReturned =>
        /\ pc # "crashed"
        /\ \A i \in 1..Len(price_reply.field) : official_price >= AssessedPrice(i)
        /\ \E i \in 1..Len(price_reply.field) : official_price = AssessedPrice(i)
        /\ name = price_reply.field[1].aphusNm
        /\ area = FromInt(ParseInt(price_reply.field[1].prvuseAr.text))

\* the records (100, 50, A), (500, 80, B) gave price 500, area 50, name A
C4_Witness ==
    /\ RecordsReturned
    /\ Len(price_reply.field) = 2
    /\ AssessedPrice(1) = 100
    /\ AssessedPrice(2) = 500
    /\ price_reply.field[1].aphusNm = "A"
    /\ price_reply.field[2].aphusNm = "B"
    /\ price_reply.field[1].prvuseAr.text = <<"5", "0">>
    /\ price_reply.field[2].prvuseAr.text = <<"8", "0">>
    /\ official_price = 500
    /\ name = "A"
    /\ area = FromInt(50)

\* the steps of one diagnosis, in order
StepOrder ==
    IF prog = "app"
    THEN <<"validate", "get_pnu_code", "get_latest_official_price", "calculate_risk",
           "calculate_safe_jeonse", "render">>
    ELSE <<"get_pnu_code", "get_latest_official_price", "calculate_risk", "render">>

Taken(step) == \E i \in 1..Len(trace) : trace[i] = step

\* C5: the steps of a diagnosis run in the order validation, get_pnu_code,
\* get_latest_official_price, risk, ceilings, each at most once; no remote
\* call is made for a detail address of fewer than two tokens, no price call
\* when get_pnu_code returned None or nothing, no risk, ceiling or result
\* when the price is <= 0; a diagnosis that shows a result has made exactly
\* one get_pnu_code call and then exactly one get_latest_official_price call,
\* on the id get_pnu_code returned.
C5_StepsInOrder ==
    /\ Len(trace) <= Len(StepOrder)
    /\ trace = SubSeq(StepOrder, 1, Len(trace))
    /\ Len(queries) <= 1
    /\ Len(lookups) <= 1
    /\ Len(queries) = Cardinality({i \in 1..Len(trace) : trace[i] = "get_pnu_code"})
    /\ Len(lookups) =
           Cardinality({i \in 1..Len(trace) : trace[i] = "get_latest_official_price"})
    /\ TokenCount(Strip(detail_address)) < 2 => (queries = <<>> /\ lookups = <<>>)
    /\ Falsy(pnu_code) => lookups = <<>>
    /\ official_price <= 0 =>
           /\ ~Taken("calculate_risk")
           /\ ~Taken("calculate_safe_jeonse")
           /\ ~Taken("render")
           /\ \A i \in 1..Len(shown) : shown[i] # "RESULT"
    /\ (\E i \in 1..Len(shown) : shown[i] = "RESULT") =>
           /\ Len(queries) = 1
           /\ lookups = <<pnu_code>>
           /\ ~Falsy(pnu_code)
           /\ official_price > 0

\* app.py has shown a result after all six steps
C5_Witness ==
    /\ prog = "app"
    /\ pc = "rendered"
    /\ trace = StepOrder
    /\ shown = <<"RESULT">>
    /\ lookups = <<pnu_code>>

\* C6: for every estimated market price >= 0 and loan >= 0 both ceilings
\* are >= 0, the safe one is <= the warning one, and each is
\* max(0, trunc(price * r) - loan) for r = 0.70 and r = 0.80.
C6_Ceilings ==
    (pc = "safe" /\ risk.estimated_market_price >= 0) =>
        LET emp == risk.estimated_market_price
        IN  /\ safe.max_safe_jeonse >= 0
            /\ safe.max_warning_jeonse >= 0
            /\ safe.max_safe_jeonse <= safe.max_warning_jeonse
            /\ safe.max_safe_jeonse = Max(0, ((70 * emp) \div 100) - LOAN_AMOUNT)
            /\ safe.max_warning_jeonse = Max(0, ((80 * emp) \div 100) - LOAN_AMOUNT)

\* C9: each ceiling is the largest deposit that keeps the ratio at or below
\* its threshold: with the loan at most trunc(price * 0.70), the deposit is
\* <= max_safe_jeonse iff (deposit + loan) / price * 100 <= 70; with the loan
\* at most trunc(price * 0.80), the deposit is <= max_warning_jeonse iff the
\* ratio is <= 80, that is iff calculate_risk does not judge DANGER.
C9_CeilingIsLargestDeposit ==
    (pc = "safe" /\ risk.estimated_market_price > 0) =>
        LET emp == risk.estimated_market_price
        IN  /\ LOAN_AMOUNT <= (70 * emp) \div 100 =>
                   ((JEONSE_DEPOSIT <= safe.max_safe_jeonse)
                        <=> (100 * total_burden <= 70 * emp))
            /\ LOAN_AMOUNT <= (80 * emp) \div 100 =>
                   /\ (JEONSE_DEPOSIT <= safe.max_warning_jeonse)
                          <=> (100 * total_burden <= 80 * emp)
                   /\ (JEONSE_DEPOSIT <= safe.max_warning_jeonse)
                          <=> (risk.judgment # DANGER)

\* C10: the maximum safe deposit is itself judged safe: with a price > 0 and
\* the loan at most trunc(price * 0.70), calculate_risk judges every deposit
\* from 0 to max_safe_jeonse SAFE.
C10_MaxSafeDepositIsSafe ==
    (/\ pc = "safe"
     /\ official_price > 0
     /\ risk.estimated_market_price > 0
     /\ LOAN_AMOUNT <= (70 * risk.estimated_market_price) \div 100
     /\ JEONSE_DEPOSIT <= safe.max_safe_jeonse) =>
        risk.judgment = SAFE

\* the three digits of n < 1000, with leading zeros
ThreeDigits(n) ==
    <<DigitChars[(n \div 100) + 1], DigitChars[((n \div 10) % 10) + 1],
      DigitChars[(n % 10) + 1]>>

\* the text the claim gives for a number of EOK and of MAN, not both 0
ClaimedMoney(eok, man) ==
    LET eok_part == Digits(eok) \o <<EOK>>
        man_part == (IF man < 1000 THEN Digits(man)
                     ELSE Digits(man \div 1000) \o <<",">> \o ThreeDigits(man % 1000))
                    \o <<MAN>>
    IN  (IF eok > 0 /\ man > 0 THEN eok_part \o <<" ">> \o man_part
         ELSE IF eok > 0 THEN eok_part
         ELSE man_part) \o <<" ", WON>>

\* C7: format_korean_money returns "0 WON" for every amount <= 0, and for
\* every amount >= 10,000 the number of EOK (when > 0) and the number of MAN,
\* grouped by thousands (when > 0), one space between them, then " WON";
\* what is below 10,000 changes nothing; 150,000,000 gives "1EOK 5,000MAN WON".
C7_Format ==
    pc = "formatted" =>
        /\ amount <= 0 => money = <<"0", " ", WON>>
        /\ amount >= MAN_UNIT =>
               money = ClaimedMoney(amount \div EOK_UNIT, (amount % EOK_UNIT) \div MAN_UNIT)
        /\ amount = 150000000 =>
               money = <<"1", EOK, " ", "5", ",", "0", "0", "0", MAN, " ", WON>>

\* 150,000,000 has been formatted
C7_Witness ==
    /\ pc = "formatted"
    /\ amount = 150000000
    /\ money = <<"1", EOK, " ", "5", ",", "0", "0", "0", MAN, " ", WON>>

\* C8 as claimed: for every amount from 1 to 9,999 format_korean_money
\* returns exactly "WON", with no space before it and no digit.
C8_BareUnit ==
    (pc = "formatted" /\ 1 <= amount /\ amount < MAN_UNIT) => money = <<WON>>

\* C8 as amended: for every amount from 1 to 9,999 format_korean_money
\* returns " WON": one space, then the unit, and no digit.
C8_SpaceAndUnit ==
    (pc = "formatted" /\ 1 <= amount /\ amount < MAN_UNIT) => money = <<" ", WON>>

\* 9,999 has been formatted
C8_Witness ==
    /\ pc = "formatted"
    /\ amount = 9999
    /\ money = <<" ", WON>>

=============================================================================
